---- MODULE Spec2Model ----
(***************************************************************************)
(* Model of the scrollytelling view of src/lib/Scroll.svelte (held in      *)
(* src/src/lib/index.ts) together with the page that hosts it              *)
(* (src/routes/A3/+page.svelte, held in src/unnamed/part_000).             *)
(*                                                                         *)
(* The chart components of src/lib and the 3D scene page (also held in     *)
(* src/unnamed/part_000) are modelled next to it.                          *)
(*                                                                         *)
(* The specifications share the state; each leaves the others' variables   *)
(* alone:                                                                  *)
(*   Spec         the tracker: data load, microtask flushes, rendering     *)
(*                updates of the IntersectionObserver, notification        *)
(*                delivery, scroll events and teardown of the component;   *)
(*   AggSpec      the two tally functions applied to bounded record sets;  *)
(*   BarSpec      RankBar.svelte: draws and animation frames of the d3     *)
(*                transitions (BarFairSpec: frames keep coming);           *)
(*   HeatSpec     GenreHeatmap.svelte: co-occurrence matrix and rendering; *)
(*   LineSpec     RankedLine.svelte: cumulative rank trajectories;         *)
(*   LabelSpec    RankedLine.svelte: labels and connectors on record sets  *)
(*                with up to MaxCats categories;                           *)
(*   SceneSpec    the 3D scene: data load, bar creation, pan inputs.       *)
(***************************************************************************)
EXTENDS Integers, Sequences, FiniteSets, Bags, TLC

VARIABLES
    movies,        \* the movies prop: sequence of [year, genres]
    loaded,        \* loadCsv has assigned movies
    mounted,       \* the Scroll component is mounted (its effects are alive)
    steps,         \* text of the .year header of each .step, in document order
    currentYear,   \* $state currentYear
    dirty,         \* movies or currentYear changed and the microtask flush has not run yet
    currentData,   \* data prop last rendered into the "Current year" RankBar
    prevData,      \* data prop last rendered into the "Previous 10 years" RankBar
    scrollY,       \* window scroll position
    intersecting,  \* the container intersected the viewport at the last rendering update
    observer,      \* IntersectionObserver of the live effect run
    listener,      \* the live run's findVisibleYear is a scroll listener of window
    keepsQueued,   \* the engine still delivers the entries queued on an observer at disconnect()
    stale,         \* bag of the entry queues left on disconnected observers
    dangling,      \* number of findVisibleYear closures of finished runs registered on window
    ahead,         \* how many of them were registered before the live run's closure
    calls,         \* what triggered each findVisibleYear invocation of the last step
    barData,       \* RankBar: the data prop of the last draw
    bars,          \* RankBar: the g.bar node of each category, with its transitions
    draws,         \* RankBar: number of draws so far
    heatMovies,    \* GenreHeatmap: the movies prop
    heatMatrix,    \* GenreHeatmap: $derived coMatrix
    heatSvg,       \* GenreHeatmap: what the svg element holds
    lineMovies,    \* RankedLine: the movies prop
    lineData,      \* RankedLine: $derived processedData
    lineSvg,       \* RankedLine: the labels and connectors the svg element holds
    response,      \* 3D scene: how the fetch of summer_movies.csv ended
    csv,           \* 3D scene: the genre cell of each row of the file
    movieData,     \* 3D scene: mapping from genre to count
    sceneStatus,   \* 3D scene: "loading", "ready" (init ran) or "failed"
    barsCreated,   \* 3D scene: the font loaded and createBars ran
    scrollOffset,  \* 3D scene: pan offset
    maxScroll,     \* 3D scene: maximum pan offset
    isDragging,    \* 3D scene: a drag is in progress
    previousMouseX, \* 3D scene: clientX of the last drag event
    aggMovies,     \* tally functions: the records they read
    aggYear,       \* tally functions: the year they are called with
    yearTally,     \* tally functions: what aggregateYear(aggYear) returned
    rangeTally     \* tally functions: what aggregateYearRange(aggYear) returned

\* the state of the tracker
trackVars == << movies, loaded, mounted, steps, currentYear, dirty,
                currentData, prevData, scrollY, intersecting, observer,
                listener, keepsQueued, stale, dangling, ahead, calls >>

\* the state of the views other than the tracker
barVars == << barData, bars, draws >>
heatVars == << heatMovies, heatMatrix, heatSvg >>
lineVars == << lineMovies, lineData, lineSvg >>
sceneVars == << response, csv, movieData, sceneStatus, barsCreated,
               scrollOffset, maxScroll, isDragging, previousMouseX >>
aggVars == << aggMovies, aggYear, yearTally, rangeTally >>
viewVars == << barVars, heatVars, lineVars, sceneVars, aggVars >>

vars == << trackVars, viewVars >>

\* what the steps of one view leave alone
notBar == << trackVars, heatVars, lineVars, sceneVars, aggVars >>
notHeat == << trackVars, barVars, lineVars, sceneVars, aggVars >>
notLine == << trackVars, barVars, heatVars, sceneVars, aggVars >>
notScene == << trackVars, barVars, heatVars, lineVars, aggVars >>

---------------------------------------------------------------------------
(* Bounds and input sets                                                   *)

\* longest record sequence of AggSpec
MaxRecords == 2
\* longest record sequence the page loads in Spec
MaxLoad == 3
\* most entries queued on one observer between two deliveries
MaxBatch == 2
\* most disconnected observers with entries pending plus listeners of
\* finished runs: a step that would leave more is not taken
MaxStale == 1
\* largest window scroll position
MaxScrollY == 3
\* height of one .step block and of the viewport, in layout units
StepHeight == 2
InnerHeight == 2

\* Date.getFullYear() of an Invalid Date. Years of valid dates lie within
\* +-275760, so this value stands for NaN and for nothing else.
NaN == 999999

isNaN(x) == x = NaN

Years == {1989, 1990, 2000, 2001}

GenreLists ==
    { <<"Action">>, <<"Comedy">>, <<"Action", "Comedy">>,
      <<"Comedy", "Drama">>, <<"Drama", "Drama">> }

Records == [year : Years \cup {NaN}, genres : GenreLists]

Targets == Years \cup {0, NaN}

\* rows the file loaded under Spec is made of, in file order
PageRows ==
    << [year |-> 2000, genres |-> <<"Action", "Comedy">>],
       [year |-> NaN,  genres |-> <<"Drama">>],
       [year |-> 2010, genres |-> <<"Comedy">>],
       [year |-> 1990, genres |-> <<"Action">>] >>

---------------------------------------------------------------------------
(* Sequence helpers standing for the Array methods the code uses           *)

RECURSIVE FlatGenres(_)
FlatGenres(ms) ==
    IF ms = <<>> THEN <<>> ELSE Head(ms).genres \o FlatGenres(Tail(ms))

\* Math.min and Math.max
Min(a, b) == IF a < b THEN a ELSE b
Max(a, b) == IF a > b THEN a ELSE b

Contains(s, x) == \E i \in 1..Len(s) : s[i] = x

Occurrences(s, x) == Cardinality({i \in 1..Len(s) : s[i] = x})

RECURSIVE Distinct(_)
\* the keys of an InternMap filled from s: first occurrence order
Distinct(s) ==
    IF s = <<>> THEN <<>>
    ELSE LET d == Distinct(SubSeq(s, 1, Len(s) - 1))
         IN  IF Contains(d, s[Len(s)]) THEN d ELSE Append(d, s[Len(s)])

RollupOnce(labels) ==
    LET keys == Distinct(labels)
    IN  [i \in 1..Len(keys) |-> [genre |-> keys[i], count |-> 1]]

\* d3.rollup(labels, v => v.length, d => d) turned into {genre, count} objects
Rollup(labels) ==
    LET keys == Distinct(labels)
    IN  [i \in 1..Len(keys) |->
            [genre |-> keys[i], count |-> Occurrences(labels, keys[i])]]

CountAsc(a, b) == a.count - b.count < 0

\* (a, b) => b.count - a.count is negative: a sorts before b
CountDesc(a, b) == b.count - a.count < 0

RECURSIVE InsertByCount(_, _)
\* x placed behind every element it does not sort before (stable)
InsertByCount(s, x) ==
    IF s = <<>> THEN <<x>>
    ELSE IF CountDesc(x, Head(s)) THEN <<x>> \o s
         ELSE <<Head(s)>> \o InsertByCount(Tail(s), x)

RECURSIVE SortByCount(_)
\* .sort((a, b) => b.count - a.count): Array.prototype.sort is stable
SortByCount(arr) ==
    IF arr = <<>> THEN <<>>
    ELSE InsertByCount(SortByCount(SubSeq(arr, 1, Len(arr) - 1)), arr[Len(arr)])

---------------------------------------------------------------------------
(* 4. Aggregate genre counts                                               *)

getFullYear(m) == m.year

aggregateYearAtLeast(ms, year) ==
    IF Len(ms) = 0 \/ year = 0 \/ isNaN(year) THEN <<>>
    ELSE LET match(m) == ~isNaN(getFullYear(m)) /\ getFullYear(m) >= year
         IN  SortByCount(Rollup(FlatGenres(SelectSeq(ms, match))))

aggregateYear(ms, year) ==
    IF Len(ms) = 0 \/ year = 0 \/ isNaN(year) THEN <<>>
    ELSE LET match(m) == ~isNaN(getFullYear(m)) /\ getFullYear(m) = year
         IN  SortByCount(Rollup(FlatGenres(SelectSeq(ms, match))))

InRangeExclusive(movieYear, startYear, endYear) ==
    /\ ~isNaN(movieYear)
    /\ movieYear > startYear
    /\ movieYear <= endYear

InRangeOpenEnd(movieYear, startYear, endYear) ==
    /\ ~isNaN(movieYear)
    /\ movieYear >= startYear
    /\ movieYear < endYear

\* movieYear >= startYear && movieYear <= endYear; false for NaN
InRange(movieYear, startYear, endYear) ==
    /\ ~isNaN(movieYear)
    /\ movieYear >= startYear
    /\ movieYear <= endYear

aggregateYearRange(ms, endYear) ==
    IF Len(ms) = 0 \/ endYear = 0 \/ isNaN(endYear) THEN <<>>
    ELSE LET startYear == endYear - 10
             match(m) == InRange(getFullYear(m), startYear, endYear)
         IN  SortByCount(Rollup(FlatGenres(SelectSeq(ms, match))))

---------------------------------------------------------------------------
(* Text of a .year header and its parse                                    *)

Digits == <<"0", "1", "2", "3", "4", "5", "6", "7", "8", "9">>

IsDigit(c) == \E d \in 0..9 : Digits[d + 1] = c

DigitVal(c) == CHOOSE d \in 0..9 : Digits[d + 1] = c

RECURSIVE NatText(_)
NatText(n) ==
    IF n < 10 THEN <<Digits[n + 1]>>
    ELSE Append(NatText(n \div 10), Digits[(n % 10) + 1])

\* {year} in the page's markup: String(year)
ToText(year) ==
    IF isNaN(year) THEN <<"N", "a", "N">>
    ELSE IF year < 0 THEN <<"-">> \o NatText(0 - year)
    ELSE NatText(year)

RECURSIVE ParseDigits(_, _, _)
\* the longest run of leading digits; NaN when there is none
ParseDigits(text, acc, any) ==
    IF text # <<>> /\ IsDigit(Head(text))
    THEN ParseDigits(Tail(text), 10 * acc + DigitVal(Head(text)), TRUE)
    ELSE IF any THEN acc ELSE NaN

\* parseInt(yearHeader.textContent || '0')
parseInt(text) ==
    LET t == IF text = <<>> THEN <<"0">> ELSE text
    IN  IF Head(t) = "-"
        THEN LET v == ParseDigits(Tail(t), 0, FALSE)
             IN  IF isNaN(v) THEN NaN ELSE 0 - v
        ELSE IF Head(t) = "+" THEN ParseDigits(Tail(t), 0, FALSE)
        ELSE ParseDigits(t, 0, FALSE)

---------------------------------------------------------------------------
(* 2. Group movies by year                                                 *)

\* keys of d3.groups(movies, d => d.year.getFullYear()): first occurrence order
GroupYears(ms) == Distinct([i \in 1..Len(ms) |-> getFullYear(ms[i])])

RECURSIVE InsertAsc(_, _)
InsertAsc(s, x) ==
    IF s = <<>> THEN <<x>>
    ELSE IF x - Head(s) < 0 THEN <<x>> \o s
         ELSE <<Head(s)>> \o InsertAsc(Tail(s), x)

RECURSIVE SortAsc(_)
\* .sort(([a], [b]) => a - b) over keys that are all numbers
SortAsc(s) ==
    IF s = <<>> THEN <<>>
    ELSE InsertAsc(SortAsc(SubSeq(s, 1, Len(s) - 1)), s[Len(s)])

\* years: the keys of moviesByYear, NaN filtered out before the sort
years(ms) ==
    IF Len(ms) = 0 THEN <<>>
    ELSE LET valid(y) == ~isNaN(y)
         IN  SortAsc(SelectSeq(GroupYears(ms), valid))

Orderings(s) ==
    { p \in [1..Len(s) -> {s[i] : i \in 1..Len(s)}] :
        \A i, j \in 1..Len(s) : i # j => p[i] # p[j] }

\* The page's {#each d3.groups(...).sort(([a],[b]) => a - b)}: one .step per
\* group. With a NaN key the comparator is inconsistent and the order the
\* engine's sort leaves is implementation-defined: any order may result.
PageStepOrders(ms) ==
    LET keys == GroupYears(ms)
    IN  IF Contains(keys, NaN) THEN Orderings(keys) ELSE {SortAsc(keys)}

StepTexts(order) == [i \in 1..Len(order) |-> ToText(order[i])]

---------------------------------------------------------------------------
(* 5. Scrollytelling logic                                                 *)

Abs(x) == IF x < 0 THEN 0 - x ELSE x

\* getBoundingClientRect() of step i: blocks of StepHeight stacked from the
\* top of the document; all zeros once the section is detached from the page
RectTop(i, sy, attached) == IF attached THEN (i - 1) * StepHeight - sy ELSE 0

RectHeight(attached) == IF attached THEN StepHeight ELSE 0

\* twice Math.abs(stepMiddle - viewportMiddle), to stay within the integers
Distance2(i, sy, attached) ==
    Abs(2 * RectTop(i, sy, attached) + RectHeight(attached) - InnerHeight)

RECURSIVE ScanStepsLast(_, _, _, _, _)
ScanStepsLast(i, n, closestStep, sy, attached) ==
    IF i > n THEN closestStep
    ELSE IF closestStep = 0
            \/ Distance2(i, sy, attached) <= Distance2(closestStep, sy, attached)
         THEN ScanStepsLast(i + 1, n, i, sy, attached)
         ELSE ScanStepsLast(i + 1, n, closestStep, sy, attached)

RECURSIVE ScanSteps(_, _, _, _, _)
\* steps.forEach(...): closestStep = 0 stands for null, closestDistance = Infinity
ScanSteps(i, n, closestStep, sy, attached) ==
    IF i > n THEN closestStep
    ELSE IF closestStep = 0
            \/ Distance2(i, sy, attached) < Distance2(closestStep, sy, attached)
         THEN ScanSteps(i + 1, n, i, sy, attached)
         ELSE ScanSteps(i + 1, n, closestStep, sy, attached)

findVisibleYearUnchecked(stepTexts, sy, attached, cy) ==
    IF Len(stepTexts) = 0 THEN cy
    ELSE LET closestStep == ScanSteps(1, Len(stepTexts), 0, sy, attached)
             newYear == parseInt(stepTexts[closestStep])
         IN  IF newYear # cy THEN newYear ELSE cy

\* the value of currentYear after findVisibleYear() ran with currentYear = cy
findVisibleYear(stepTexts, sy, attached, cy) ==
    IF Len(stepTexts) = 0 THEN cy
    ELSE LET closestStep == ScanSteps(1, Len(stepTexts), 0, sy, attached)
             newYear == parseInt(stepTexts[closestStep])
         IN  IF newYear # cy /\ ~isNaN(newYear) THEN newYear ELSE cy

---------------------------------------------------------------------------
(* The tracker's effect (the $effect of section 5) and its closures        *)
(*                                                                         *)
(* Every run of the effect creates its own IntersectionObserver and its    *)
(* own findVisibleYear closure. The model keeps the live run's observer    *)
(* and listener by name; of finished runs it keeps what can still act:     *)
(* the entries left queued on their observers and the number of their      *)
(* closures registered on window.                                          *)
(*                                                                         *)
(* IntersectionObserver: a rendering update queues an entry on a connected *)
(* observer when it observes the target for the first time or when         *)
(* isIntersecting changed, and a later task hands all queued entries to    *)
(* the callback at once. disconnect() stops observation. What becomes of   *)
(* the entries queued at that moment depends on the engine: Chrome drops   *)
(* them and never runs the callback again; the W3C algorithm leaves them   *)
(* queued and the notification task delivers them. keepsQueued tells which *)
(* of the two the engine does.                                             *)
(*                                                                         *)
(* Reactivity: an assignment to movies, or one that changes currentYear,   *)
(* marks what reads it (the two $derived tallies, the template, the        *)
(* effect); the microtask flush after the running callback renders the     *)
(* template and runs the effect. Tasks and paints come after the flush.    *)

NoObserver == [connected |-> FALSE, fresh |-> FALSE, queue |-> <<>>]

NewObserver == [connected |-> TRUE, fresh |-> TRUE, queue |-> <<>>]

\* the closure-visible state at the start of a step
Pack ==
    [cy |-> currentYear, dirty |-> dirty,
     currentData |-> currentData, prevData |-> prevData,
     observer |-> observer, listener |-> listener,
     stale |-> stale, dangling |-> dangling, ahead |-> ahead,
     calls |-> <<>>]

\* currentYear = year: a changed value leaves its readers to be flushed
Write(s, year) ==
    IF year = s.cy THEN s ELSE [s EXCEPT !.cy = year, !.dirty = TRUE]

\* the function the effect returns: disconnect() and removeEventListener
Cleanup(s) ==
    [s EXCEPT !.observer = NoObserver,
              !.listener = FALSE,
              !.ahead = 0,
              !.stale = IF keepsQueued /\ s.observer.queue # <<>>
                        THEN @ (+) SetToBag({s.observer.queue}) ELSE @]

\* one run of the effect past its guard: initial year, a new observer and
\* closure, observe(container), and the initial findVisibleYear()
EffectBody(s, ms, stepTexts, sy) ==
    LET ys == years(ms)
        s1 == Write(s, IF Len(ys) > 0 /\ s.cy = 0 THEN ys[1] ELSE s.cy)
        s2 == Write(s1, findVisibleYear(stepTexts, sy, TRUE, s1.cy))
    IN  [s2 EXCEPT !.observer = NewObserver,
                   !.listener = FALSE,
                   !.ahead = 0,
                   !.calls = Append(@, "setup")]

DerivePrevYear(ms, cy) ==
    [currentData |-> aggregateYear(ms, cy),
     prevData |-> aggregateYearRange(ms, cy - 10)]

\* currentData = $derived(aggregateYear(currentYear)),
\* prevData = $derived(aggregateYearRange(currentYear))
Derive(ms, cy) ==
    [currentData |-> aggregateYear(ms, cy),
     prevData |-> aggregateYearRange(ms, cy)]

\* one round of the microtask flush of a mounted component: the template
\* renders the two data props, then the effect runs (its cleanup first, if
\* the run before returned one); with no records it returns at its guard.
\* A run that wrote currentYear leaves another round to do
FlushRound(s, ms, stepTexts, sy) ==
    LET shown == [s EXCEPT !.dirty = FALSE,
                           !.currentData = Derive(ms, s.cy).currentData,
                           !.prevData = Derive(ms, s.cy).prevData]
        prior == IF s.observer.connected THEN Cleanup(shown) ELSE shown
    IN  IF ~mounted THEN [s EXCEPT !.dirty = FALSE]
        ELSE IF Len(ms) = 0 THEN shown
        ELSE EffectBody(prior, ms, stepTexts, sy)

RECURSIVE Drain(_, _)
\* a microtask checkpoint: rounds of the flush until nothing is left to do
Drain(s, sy) ==
    IF s.dirty
    THEN CHOOSE r \in {Drain(s1, sy) :
                          s1 \in {FlushRound(s, movies, steps, sy)}} : TRUE
    ELSE s

handleIntersectionAlways(s, entries, own, sy) ==
    LET entry == entries[1]
        s1 == [Write(s, findVisibleYear(steps, sy, mounted, s.cy))
                  EXCEPT !.calls = Append(@, "intersect")]
    IN  IF entry
        THEN IF own
             THEN [s1 EXCEPT !.listener = TRUE,
                             !.ahead = IF s.listener THEN @ ELSE s.dangling]
             ELSE [s1 EXCEPT !.dangling = @ + 1]
        ELSE IF own THEN [s1 EXCEPT !.listener = FALSE, !.ahead = 0] ELSE s1

\* handleIntersection(entries) of the live run (own) or of a finished run:
\* only entries[0] is looked at. addEventListener puts the closure at the
\* end of window's listener list, unless it is in it
handleIntersection(s, entries, own, sy) ==
    LET entry == entries[1]
    IN  IF entry
        THEN LET s1 == [Write(s, findVisibleYear(steps, sy, mounted, s.cy))
                           EXCEPT !.calls = Append(@, "intersect")]
             IN  IF own
                 THEN [s1 EXCEPT !.listener = TRUE,
                                 !.ahead = IF s.listener THEN @ ELSE s.dangling]
                 ELSE [s1 EXCEPT !.dangling = @ + 1]
        ELSE IF own THEN [s EXCEPT !.listener = FALSE, !.ahead = 0] ELSE s

RECURSIVE DispatchScroll(_, _, _, _, _)
\* the scroll event: the n closures registered when the dispatch began are
\* called in the order they were registered, the live run's closure as number
\* live (0: it is not registered); a closure that a cleanup removed before
\* its turn is passed over. A call runs findVisibleYear; a microtask
\* checkpoint follows every callback, the one after the last callback being
\* the flush that follows the event
DispatchScroll(s, i, n, live, sy) ==
    LET called == [Write(s, findVisibleYear(steps, sy, mounted, s.cy))
                      EXCEPT !.calls = Append(@, "scroll")]
    IN  IF i > n THEN s
        ELSE IF i = live /\ ~s.listener
             THEN DispatchScroll(s, i + 1, n, live, sy)
             ELSE IF i = n THEN called
             ELSE CHOOSE r \in {DispatchScroll(s1, i + 1, n, live, sy) :
                                   s1 \in {Drain(called, sy)}} : TRUE

\* the state a step leaves
Commit(r) ==
    /\ currentYear' = r.cy
    /\ dirty' = r.dirty
    /\ currentData' = r.currentData
    /\ prevData' = r.prevData
    /\ observer' = r.observer
    /\ listener' = r.listener
    /\ stale' = r.stale
    /\ dangling' = r.dangling
    /\ ahead' = r.ahead
    /\ calls' = r.calls

---------------------------------------------------------------------------
(* Steps of the tracker                                                    *)

RECURSIVE Pick(_, _, _)
\* the rows of s whose index is in keep, in the order of s
Pick(s, keep, i) ==
    IF i > Len(s) THEN <<>>
    ELSE IF i \in keep THEN <<s[i]>> \o Pick(s, keep, i + 1)
         ELSE Pick(s, keep, i + 1)

\* the files the page may load: at most MaxLoad of the rows, in file order
PageDatasets ==
    { Pick(PageRows, keep, 1) :
        keep \in {k \in SUBSET (1..Len(PageRows)) : Cardinality(k) <= MaxLoad} }

---------------------------------------------------------------------------
(* The ranked bar chart (src/lib/RankBar.svelte)                           *)

\* most draws of one chart
MaxDraws == 3

Categories == {"A", "B", "C"}

\* time between two animation frames, in ms: shorter than every duration,
\* as long as the shortest one, and longer than every delay and duration
Frames == {100, 300, 700}

\* the data props the chart is given
BarDatasets ==
    { <<>>,
      << [genre |-> "A", count |-> 5], [genre |-> "B", count |-> 10] >>,
      << [genre |-> "A", count |-> 5], [genre |-> "B", count |-> 10],
         [genre |-> "C", count |-> 1] >>,
      << [genre |-> "C", count |-> 7], [genre |-> "A", count |-> 5] >>,
      << [genre |-> "B", count |-> 2] >> }

\* const ranked = $derived([...data].sort((a, b) => b.count - a.count))
ranked(data) == SortByCount(data)

\* the genres of a data array: the keys of the join
Keys(data) == {data[i].genre : i \in 1..Len(data)}

\* no g.bar element of a category in the document
NoBar == [present |-> FALSE, opacity |-> 0, sched |-> <<>>]

DelayNone(kind) == 0

\* .delay(...) of the transition of each selection, in ms
Delay(kind) == IF kind = "enter" THEN 600 ELSE 0

\* .duration(...) of the transition of each selection, in ms
Duration(kind) ==
    CASE kind = "update" -> 600
      [] kind = "enter"  -> 400
      [] kind = "exit"   -> 300

\* .attr("opacity", ...) of the transition of each selection, in percent
Target(kind) == IF kind = "exit" THEN 0 ELSE 100

\* selection.transition(): a schedule created on the node by draw number id
NewTransition(kind, id) ==
    [id |-> id, kind |-> kind, age |-> 0, running |-> FALSE]

\* the keyed data join on one category and what draw does to its selection:
\* enter appends a hidden g.bar, update and exit add a transition to the node
JoinNode(node, inData, id) ==
    IF ~node.present
    THEN IF inData
         THEN [present |-> TRUE, opacity |-> 0,
               sched |-> <<NewTransition("enter", id)>>]
         ELSE node
    ELSE [node EXCEPT
            !.sched = Append(@, NewTransition(IF inData THEN "update"
                                              ELSE "exit", id))]

\* draw(data) as draw number id on the rendered nodes bs
draw(bs, data, id) ==
    [c \in Categories |-> JoinNode(bs[c], c \in Keys(data), id)]

\* the schedule of draw number id on a node, when the node still has it
HasSchedule(node, id) == \E i \in 1..Len(node.sched) : node.sched[i].id = id

ScheduleOf(node, id) ==
    node.sched[CHOOSE i \in 1..Len(node.sched) : node.sched[i].id = id]

\* d3-transition start(), past its deferral: the running transition of the
\* node is interrupted and its older pending ones are cancelled; newer
\* pending ones stay. The schedule is STARTED until its first tick.
StartTransition(node, id) ==
    LET keep(o) == o.id = id \/ (~o.running /\ o.id > id)
    IN  [node EXCEPT !.sched = SelectSeq(@, keep)]

TickTransitionRemoveAlways(node, id, elapsed) ==
    LET tr == ScheduleOf(node, id)
        others(o) == o.id # id
        rest == SelectSeq(node.sched, others)
    IN  IF elapsed >= Duration(tr.kind)
        THEN IF tr.kind = "exit"
             THEN NoBar
             ELSE [node EXCEPT !.opacity = Target(tr.kind), !.sched = rest]
        ELSE [node EXCEPT
                !.opacity = IF @ = Target(tr.kind) \/ elapsed = 0 THEN @ ELSE 50]

\* d3-transition tick(elapsed) of a running transition: the attribute is
\* tweened (at elapsed 0 it keeps its value), and at the end the schedule is
\* deleted; .remove() takes the node out of the document at the end when the
\* node has no other schedule
TickTransition(node, id, elapsed) ==
    LET tr == ScheduleOf(node, id)
        others(o) == o.id # id
        rest == SelectSeq(node.sched, others)
    IN  IF elapsed >= Duration(tr.kind)
        THEN IF tr.kind = "exit" /\ rest = <<>>
             THEN NoBar
             ELSE [node EXCEPT !.opacity = Target(tr.kind), !.sched = rest]
        ELSE [node EXCEPT
                !.opacity = IF @ = Target(tr.kind) \/ elapsed = 0 THEN @ ELSE 50]

\* a timer that is due in the current frame: the timer of a schedule
\* ("timer"), timeout(start) of a deferred start ("start"), or the timeout of
\* the first tick of a schedule started in this frame ("tick")
Timer(op, id, elapsed) == [op |-> op, id |-> id, elapsed |-> elapsed]

\* one timer callback of the frame on st = [node, started, queue], where
\* started is the id of the node's STARTED schedule (0: none) and queue holds
\* the timers yet to be called. start(elapsed) is put off with timeout(start)
\* while another schedule of the node is STARTED, and is then called with
\* elapsed 0; otherwise it leaves the first tick(elapsed) for the end of the
\* frame. The first tick makes the schedule RUNNING.
TimerCall(st, call) ==
    IF ~HasSchedule(st.node, call.id) THEN st
    ELSE LET tr == ScheduleOf(st.node, call.id)
             id == call.id
             start(elapsed) ==
                 IF st.started # 0
                 THEN [st EXCEPT !.queue = Append(@, Timer("start", id, 0))]
                 ELSE [node |-> StartTransition(st.node, id),
                       started |-> id,
                       queue |-> Append(st.queue, Timer("tick", id, elapsed))]
             run(o) == IF o.id = id THEN [o EXCEPT !.running = TRUE] ELSE o
             running == [st.node EXCEPT
                           !.sched = [i \in 1..Len(@) |-> run(@[i])]]
         IN  CASE call.op = "timer" ->
                    IF tr.running
                    THEN [st EXCEPT !.node = TickTransition(
                                        @, id, tr.age - Delay(tr.kind))]
                    ELSE IF tr.age >= Delay(tr.kind)
                         THEN start(tr.age - Delay(tr.kind))
                         ELSE st
               [] call.op = "start" -> start(0)
               [] call.op = "tick" ->
                    [st EXCEPT !.node = TickTransition(running, id, call.elapsed),
                               !.started = 0]

RECURSIVE FlushTimers(_)
\* d3-timer flush: the timers are called in the order they were created,
\* those created during the flush included; each call is evaluated once and
\* its result handed to the next one
FlushTimers(st) ==
    IF st.queue = <<>> THEN st.node
    ELSE CHOOSE r \in {FlushTimers(n) :
                          n \in {TimerCall([st EXCEPT !.queue = Tail(@)],
                                           Head(st.queue))}} : TRUE

\* one animation frame, dt ms after the last one, on one node
Frame(node, dt) ==
    LET aged == [node EXCEPT
                   !.sched = [i \in 1..Len(@) |-> [@[i] EXCEPT !.age = @ + dt]]]
    IN  FlushTimers([node |-> aged, started |-> 0,
                     queue |-> [i \in 1..Len(node.sched) |->
                                   Timer("timer", node.sched[i].id, 0)]])

BarIdle ==
    /\ barData = <<>>
    /\ bars = [c \in Categories |-> NoBar]
    /\ draws = 0

---------------------------------------------------------------------------
(* The genre heatmap (src/lib/GenreHeatmap.svelte)                         *)

\* longest record sequence given to the heatmap
MaxHeat == 2

\* the label lists of the heatmap's records
HeatGenreLists ==
    GenreLists \cup { <<>>, <<"Action", "Action", "Comedy">> }

HeatRecords == [year : {2000}, genres : HeatGenreLists]

RECURSIVE SeqsOf(_, _)
\* the sequences over S of length at most n
SeqsOf(S, n) ==
    IF n = 0 THEN { <<>> }
    ELSE LET shorter == SeqsOf(S, n - 1)
         IN  shorter \cup { Append(q, x) : q \in shorter, x \in S }

\* the labels in the order of Array.prototype.sort()
SortedLabels == << "Action", "Comedy", "Drama" >>

\* Array.from(allGenres).sort()
genres(ms) ==
    LET present(g) == Contains(FlatGenres(ms), g)
    IN  SelectSeq(SortedLabels, present)

\* the positions i < j of a label list with gs[i] = g1 and gs[j] = g2
PairHits(gs, g1, g2) ==
    Cardinality({ p \in (1..Len(gs)) \X (1..Len(gs)) :
                    p[1] < p[2] /\ gs[p[1]] = g1 /\ gs[p[2]] = g2 })

PairIncrementsOneSided(gs, g, h) == PairHits(gs, g, h)

\* how often the pair loop of one record increments matrix[g][h]:
\* matrix[g1][g2]++ with (g1, g2) = (g, h), matrix[g2][g1]++ with (g2, g1) = (g, h)
PairIncrements(gs, g, h) == PairHits(gs, g, h) + PairHits(gs, h, g)

RECURSIVE CoOccurrences(_, _, _)
\* the increments of matrix[g][h] by the movies.forEach of the pair loop
CoOccurrences(ms, g, h) ==
    IF ms = <<>> THEN 0
    ELSE PairIncrements(Head(ms).genres, g, h) + CoOccurrences(Tail(ms), g, h)

\* genreTotals[g]
genreTotals(ms, g) == Occurrences(FlatGenres(ms), g)

LabelSet(ms) == {FlatGenres(ms)[i] : i \in 1..Len(FlatGenres(ms))}

\* const coMatrix = $derived.by(...)
coMatrix(ms) ==
    [g \in LabelSet(ms) |->
        [h \in LabelSet(ms) |->
            (IF g = h THEN genreTotals(ms, g) ELSE 0) + CoOccurrences(ms, g, h)]]

RECURSIVE RowSum(_, _, _)
\* genres.forEach(h => sum += coMatrix[g]?.[h] || 0)
RowSum(m, g, hs) ==
    IF hs = <<>> THEN 0 ELSE m[g][Head(hs)] + RowSum(m, g, Tail(hs))

RECURSIVE InsertBySum(_, _, _, _)
\* g placed behind every genre whose sum is not smaller (stable sort)
InsertBySum(s, g, m, all) ==
    IF s = <<>> THEN <<g>>
    ELSE IF RowSum(m, Head(s), all) - RowSum(m, g, all) < 0
         THEN <<g>> \o s
         ELSE <<Head(s)>> \o InsertBySum(Tail(s), g, m, all)

RECURSIVE SortBySum(_, _, _)
SortBySum(gs, m, all) ==
    IF gs = <<>> THEN <<>>
    ELSE InsertBySum(SortBySum(SubSeq(gs, 1, Len(gs) - 1), m, all),
                     gs[Len(gs)], m, all)

\* const orderedGenres = $derived.by(...)
orderedGenres(ms) == SortBySum(genres(ms), coMatrix(ms), genres(ms))

\* an svg element without children
EmptySvg == [cells |-> <<>>, labels |-> <<>>, legend |-> FALSE]

\* the cells (row, column, value) the effect appends, row by row
Cells(order, m) ==
    [k \in 1..(Len(order) * Len(order)) |->
        LET row == order[((k - 1) \div Len(order)) + 1]
            col == order[((k - 1) % Len(order)) + 1]
        IN  [row |-> row, col |-> col, value |-> m[row][col]]]

\* the drawing effect on the svg element
Render(svg, ms) ==
    IF Len(ms) = 0 \/ Len(orderedGenres(ms)) = 0 THEN svg
    ELSE [cells |-> Cells(orderedGenres(ms), coMatrix(ms)),
          labels |-> orderedGenres(ms), legend |-> TRUE]

HeatIdle ==
    /\ heatMovies = <<>>
    /\ heatMatrix = coMatrix(<<>>)
    /\ heatSvg = EmptySvg

---------------------------------------------------------------------------
(* The ranked line chart (src/lib/RankedLine.svelte)                       *)

\* longest record sequence given to the line chart
MaxLine == 3

LineGenreLists ==
    { <<"Action">>, <<"Horror", "Comedy">>, <<"Comedy", "Drama", "Drama">>,
      <<"Drama", "Comedy", "Action", "Horror">> }

LineRecords == [year : {1990, 2000, NaN}, genres : LineGenreLists]

\* Array.from(allGenres): the labels in the order they first occur
lineGenres(ms) == Distinct(FlatGenres(ms))

\* the keys of d3.group(movies, d => d.year), in insertion order
YearKeys(ms) == Distinct([i \in 1..Len(ms) |-> ms[i].year])

\* .sort((a, b) => a.year - b.year): with a NaN key the comparator is
\* inconsistent and the order the engine's sort leaves is
\* implementation-defined
YearOrders(ms) ==
    LET keys == YearKeys(ms)
    IN  IF Contains(keys, NaN) THEN Orderings(keys) ELSE {SortAsc(keys)}

\* counts.sort((a, b) => b.count - a.count).slice(0, 3) with rank i + 1
Top3(group) ==
    LET sorted == SortByCount(Rollup(FlatGenres(group)))
        n == IF Len(sorted) < 3 THEN Len(sorted) ELSE 3
    IN  [i \in 1..n |-> [genre |-> sorted[i].genre, count |-> sorted[i].count,
                         rank |-> i]]

\* the yearData entry of one group
YearEntry(ms, y) ==
    LET inYear(m) == m.year = y
    IN  [year |-> y, top3 |-> Top3(SelectSeq(ms, inYear))]

BonusFlat(top3, genre) ==
    IF \E i \in 1..Len(top3) : top3[i].genre = genre THEN 3 ELSE 0

\* what one year adds: 4 - entry.rank when top3.find(...) finds the genre
Bonus(top3, genre) ==
    IF \E i \in 1..Len(top3) : top3[i].genre = genre
    THEN 4 - top3[CHOOSE i \in 1..Len(top3) : top3[i].genre = genre].rank
    ELSE 0

RECURSIVE Cumulative(_, _, _)
\* cumulative after the first k entries of yearData
Cumulative(yd, genre, k) ==
    IF k = 0 THEN 0
    ELSE Cumulative(yd, genre, k - 1) + Bonus(yd[k].top3, genre)

\* the trajectory of one genre
Trajectory(yd, genre) ==
    [k \in 1..Len(yd) |->
        [year |-> yd[k].year, cumulative |-> Cumulative(yd, genre, k)]]

NoLineData == [yearData |-> <<>>, genreTrajectories |-> <<>>, years |-> <<>>]

\* const processedData = $derived.by(...), the sort having left the order
processedData(ms, order) ==
    IF Len(ms) = 0 THEN NoLineData
    ELSE LET yd == [k \in 1..Len(order) |-> YearEntry(ms, order[k])]
             gs == lineGenres(ms)
         IN  [yearData |-> yd,
              genreTrajectories |->
                  [g \in 1..Len(gs) |-> Trajectory(yd, gs[g])],
              years |-> [k \in 1..Len(yd) |-> yd[k].year]]

\* the largest cumulative score of all points, d3.max(allCumulatives) ?? 0
MaxCumulative(trajectories) ==
    LET all == UNION { {trajectories[g][k].cumulative :
                           k \in 1..Len(trajectories[g])} :
                       g \in 1..Len(trajectories) }
    IN  IF all = {} THEN 0 ELSE CHOOSE m \in all : \A c \in all : c <= m

\* the upper end of the domain of yScale: Math.max(maxY, 1)
YDomain(trajectories) == Max(MaxCumulative(trajectories), 1)

\* yScale(cumulative) with the default height 400 and the margins 50 and 20:
\* 350 - 330 * cumulative / YDomain, kept exact in units of 1/YDomain px
yScale(trajectories, cumulative) ==
    350 * YDomain(trajectories) - 330 * cumulative

\* const minSpacing = 12, in the unit of yScale
minSpacing(trajectories) == 12 * YDomain(trajectories)

\* the entry of labelData of each trajectory that has a point
LabelEntries(gs, trajectories) ==
    LET nonEmpty(g) == Len(trajectories[g]) > 0
        idx == SelectSeq([g \in 1..Len(trajectories) |-> g], nonEmpty)
    IN  [i \in 1..Len(idx) |->
            LET last == trajectories[idx[i]][Len(trajectories[idx[i]])]
            IN  [genre |-> gs[idx[i]],
                 lineY |-> yScale(trajectories, last.cumulative),
                 cumulative |-> last.cumulative]]

RECURSIVE InsertByCumulative(_, _)
InsertByCumulative(s, x) ==
    IF s = <<>> THEN <<x>>
    ELSE IF Head(s).cumulative - x.cumulative < 0 THEN <<x>> \o s
         ELSE <<Head(s)>> \o InsertByCumulative(Tail(s), x)

RECURSIVE SortByCumulative(_)
\* .sort((a, b) => b.cumulative - a.cumulative)
SortByCumulative(arr) ==
    IF arr = <<>> THEN <<>>
    ELSE InsertByCumulative(SortByCumulative(SubSeq(arr, 1, Len(arr) - 1)),
                            arr[Len(arr)])

RECURSIVE InsertByLineY(_, _)
InsertByLineY(s, x) ==
    IF s = <<>> THEN <<x>>
    ELSE IF x.lineY - Head(s).lineY < 0 THEN <<x>> \o s
         ELSE <<Head(s)>> \o InsertByLineY(Tail(s), x)

RECURSIVE SortByLineY(_)
\* significantLabels.sort((a, b) => a.lineY - b.lineY)
SortByLineY(arr) ==
    IF arr = <<>> THEN <<>>
    ELSE InsertByLineY(SortByLineY(SubSeq(arr, 1, Len(arr) - 1)),
                       arr[Len(arr)])

\* const labelData = ...
labelData(gs, trajectories) == SortByCumulative(LabelEntries(gs, trajectories))

thresholdOfSeventh(ld) ==
    Max(5, IF ld = <<>> THEN 0 ELSE ld[Min(6, Len(ld) - 1) + 1].cumulative)

\* Math.max(5, labelData[Math.min(7, labelData.length - 1)]?.cumulative || 0)
threshold(ld) ==
    Max(5, IF ld = <<>> THEN 0 ELSE ld[Min(7, Len(ld) - 1) + 1].cumulative)

\* labelData.filter(d => d.cumulative >= threshold), sorted by lineY
significantLabels(ld) ==
    LET significant(d) == d.cumulative >= threshold(ld)
    IN  SortByLineY(SelectSeq(ld, significant))

RECURSIVE labelY(_, _, _)
\* d.labelY of the i-th significant label
labelY(sl, i, spacing) ==
    IF i = 1 THEN sl[1].lineY
    ELSE Max(sl[i].lineY, labelY(sl, i - 1, spacing) + spacing)

\* the label texts and the connector lines the effect appends
Labels(gs, trajectories) ==
    LET sl == significantLabels(labelData(gs, trajectories))
    IN  [i \in 1..Len(sl) |->
            [genre |-> sl[i].genre, cumulative |-> sl[i].cumulative,
             lineY |-> sl[i].lineY,
             labelY |-> labelY(sl, i, minSpacing(trajectories))]]

ConnectorsWhenApart(labels) ==
    LET apart(l) == l.labelY # l.lineY
        far == SelectSeq(labels, apart)
    IN  [i \in 1..Len(far) |->
            [genre |-> far[i].genre, y1 |-> far[i].lineY, y2 |-> far[i].labelY]]

\* significantLabels.forEach(d => g.append("line")...): one per label
Connectors(labels) ==
    [i \in 1..Len(labels) |->
        [genre |-> labels[i].genre, y1 |-> labels[i].lineY,
         y2 |-> labels[i].labelY]]

NoLineSvg == [labels |-> <<>>, connectors |-> <<>>]

\* the drawing effect of the line chart on the svg element
RenderLine(svg, ms, data) ==
    IF Len(ms) = 0 \/ Len(data.yearData) = 0 THEN svg
    ELSE LET ls == Labels(lineGenres(ms), data.genreTrajectories)
         IN  [labels |-> ls, connectors |-> Connectors(ls)]

LineIdle ==
    /\ lineMovies = <<>>
    /\ lineData = NoLineData
    /\ lineSvg = NoLineSvg

---------------------------------------------------------------------------
(* The 3D scene (src/routes/+page.svelte of the scene, in part_000)        *)

\* most rows of summer_movies.csv
MaxRows == 2

\* a row without any genre column: genresStr is undefined
Missing == <<>>

TenLabels ==
    << "Action", "Comedy", "Drama", "Horror", "Sci-Fi", "Animation",
       "Romance", "Thriller", "Western", "Musical" >>

\* the genre cell of a row, as the pieces between its commas
GenreCells ==
    { Missing, <<"">>, <<" ">>, <<"Action">>, <<"Action", "", " Comedy">>,
      <<" ", "">>, SubSeq(TenLabels, 1, 8), SubSeq(TenLabels, 2, 10),
      TenLabels }

\* how the fetch ends
Responses == {"rejected", "notOk", "ok"}

\* clientX of the mouse events
MouseXs == {0, 10, 40}

Keys3D == {"ArrowLeft", "ArrowRight", "Enter"}

\* String.prototype.trim on the pieces
Trim(t) ==
    CASE t = " " -> ""
      [] t = " Comedy" -> "Comedy"
      [] OTHER -> t

\* genresStr && genresStr.trim() is falsy: no column, "" or white space
Blank(cell) == cell = Missing \/ (Len(cell) = 1 /\ Trim(cell[1]) = "")

RECURSIVE GenreTokens(_)
\* the genres counted over all rows: split(','), trim, empty ones skipped
GenreTokens(rows) ==
    IF rows = <<>> THEN <<>>
    ELSE LET cell == Head(rows)
             named(t) == t # ""
         IN  (IF Blank(cell) THEN <<>>
              ELSE SelectSeq([i \in 1..Len(cell) |-> Trim(cell[i])], named))
             \o GenreTokens(Tail(rows))

\* genreCounts after rows.forEach
genreCounts(rows) ==
    LET tokens == GenreTokens(rows)
    IN  [g \in {tokens[i] : i \in 1..Len(tokens)} |-> Occurrences(tokens, g)]

\* let movieData: TMovieData = {}
NoData == [g \in {} |-> 0]

\* the sample data returned by the catch block
Fallback ==
    [g \in {"Action", "Comedy", "Drama", "Horror", "Sci-Fi", "Animation"} |->
        CASE g = "Action" -> 25 [] g = "Comedy" -> 18 [] g = "Drama" -> 15
          [] g = "Horror" -> 12 [] g = "Sci-Fi" -> 20 [] g = "Animation" -> 10]

\* the try block: it throws when the fetch rejects, the status is not OK or
\* no genre was counted, and returns genreCounts otherwise
TryLoad(resp, rows) ==
    IF resp # "ok" \/ DOMAIN genreCounts(rows) = {}
    THEN [threw |-> TRUE, value |-> NoData]
    ELSE [threw |-> FALSE, value |-> genreCounts(rows)]

loadWithoutCatch(resp, rows) ==
    [resolved |-> ~TryLoad(resp, rows).threw, value |-> TryLoad(resp, rows).value]

\* loadSummerMoviesData: the catch block returns the sample data
loadSummerMoviesData(resp, rows) ==
    IF TryLoad(resp, rows).threw
    THEN [resolved |-> TRUE, value |-> Fallback]
    ELSE [resolved |-> TRUE, value |-> TryLoad(resp, rows).value]

\* createBars: maxScroll = totalWidth - viewportWidth
MaxScrollOf(data) == Cardinality(DOMAIN data) * 150 - 1200

\* mousemove while dragging
DragTo(offset, limit, deltaX) == Max(0, Min(offset - deltaX * 5, limit))

\* keydown ArrowRight
ArrowRight(offset, limit) == Min(offset + 150, limit)

\* keydown ArrowLeft
ArrowLeft(offset) == Max(0, offset - 150)

SceneIdle ==
    /\ response = "ok"
    /\ csv = <<>>
    /\ movieData = NoData
    /\ sceneStatus = "loading"
    /\ barsCreated = FALSE
    /\ scrollOffset = 0
    /\ maxScroll = 0
    /\ isDragging = FALSE
    /\ previousMouseX = 0

\* the tally functions called on no record with the year unset
AggIdle ==
    /\ aggMovies = <<>>
    /\ aggYear = 0
    /\ yearTally = <<>>
    /\ rangeTally = <<>>

ViewIdle == BarIdle /\ HeatIdle /\ LineIdle /\ SceneIdle /\ AggIdle

Init ==
    /\ movies = <<>>
    /\ loaded = FALSE
    /\ mounted = TRUE
    /\ steps = <<>>
    /\ currentYear = 0
    /\ dirty = FALSE
    /\ currentData = <<>>
    /\ prevData = <<>>
    /\ scrollY = 0
    /\ intersecting \in BOOLEAN
    /\ observer = NoObserver
    /\ listener = FALSE
    /\ keepsQueued \in BOOLEAN
    /\ stale = EmptyBag
    /\ dangling = 0
    /\ ahead = 0
    /\ calls = <<>>
    /\ ViewIdle

\* the microtask queue is empty: a task can start, and a rendering update
\* can paint the page
BetweenTasks == ~dirty

\* loadCsv resolves: movies is assigned once; the flush that follows renders
\* one .step per year group
Load ==
    /\ mounted
    /\ ~loaded
    /\ BetweenTasks
    /\ \E ds \in PageDatasets : \E order \in PageStepOrders(ds) :
          /\ movies' = ds
          /\ steps' = StepTexts(order)
    /\ loaded' = TRUE
    /\ dirty' = TRUE
    /\ calls' = <<>>
    /\ UNCHANGED << mounted, currentYear, currentData, prevData, scrollY,
                    intersecting, observer, listener, keepsQueued, stale,
                    dangling, ahead, viewVars >>

\* the microtask flush after a callback that assigned movies or changed
\* currentYear, one round a step
Flush ==
    /\ dirty
    /\ LET r == FlushRound(Pack, movies, steps, scrollY)
       IN  BagCardinality(r.stale) + r.dangling <= MaxStale /\ Commit(r)
    /\ UNCHANGED << movies, loaded, mounted, steps, scrollY, intersecting,
                    keepsQueued, viewVars >>

\* a rendering update (after which the page is painted) in which the
\* container's intersection changed, or in which a new observer observes the
\* container for the first time
RenderingUpdate ==
    \E now \in BOOLEAN :
        /\ BetweenTasks
        /\ now # intersecting \/ (observer.connected /\ observer.fresh)
        /\ intersecting' = now
        /\ IF observer.connected
           THEN /\ Len(observer.queue) < MaxBatch
                /\ observer' = [observer EXCEPT !.fresh = FALSE,
                                                !.queue = Append(@, now)]
           ELSE observer' = observer
        /\ calls' = <<>>
        /\ UNCHANGED << movies, loaded, mounted, steps, currentYear, dirty,
                        currentData, prevData, scrollY, listener, keepsQueued,
                        stale, dangling, ahead, viewVars >>

\* the notification task delivers the live observer's queue
Notify ==
    /\ BetweenTasks
    /\ observer.queue # <<>>
    /\ Commit(handleIntersection([Pack EXCEPT !.observer.queue = <<>>],
                                 observer.queue, TRUE, scrollY))
    /\ UNCHANGED << movies, loaded, mounted, steps, scrollY, intersecting,
                    keepsQueued, viewVars >>

\* on an engine that keeps them, the notification task delivers the entries
\* left on a disconnected observer to the handleIntersection of the run that
\* created it
NotifyStale ==
    \E q \in BagToSet(stale) :
        /\ BetweenTasks
        /\ LET r == handleIntersection([Pack EXCEPT !.stale = @ (-) SetToBag({q})],
                                       q, FALSE, scrollY)
           IN  BagCardinality(r.stale) + r.dangling <= MaxStale /\ Commit(r)
        /\ UNCHANGED << movies, loaded, mounted, steps, scrollY, intersecting,
                        keepsQueued, viewVars >>

\* the findVisibleYear closures registered for "scroll" on window
ListenerCount(s) == (IF s.listener THEN 1 ELSE 0) + s.dangling

\* the window scrolls and the scroll event is dispatched
Scroll ==
    \E y \in 0..MaxScrollY :
        /\ BetweenTasks
        /\ y # scrollY
        /\ scrollY' = y
        /\ LET r == DispatchScroll(Pack, 1, ListenerCount(Pack),
                                    IF listener THEN ahead + 1 ELSE 0, y)
           IN  BagCardinality(r.stale) + r.dangling <= MaxStale /\ Commit(r)
        /\ UNCHANGED << movies, loaded, mounted, steps, intersecting,
                        keepsQueued, viewVars >>

\* the hosting view is torn down: the effect's cleanup runs, if it ever ran
Teardown ==
    /\ mounted
    /\ BetweenTasks
    /\ mounted' = FALSE
    /\ LET r == IF observer.connected THEN Cleanup(Pack) ELSE Pack
       IN  BagCardinality(r.stale) + r.dangling <= MaxStale /\ Commit(r)
    /\ UNCHANGED << movies, loaded, steps, scrollY, intersecting, keepsQueued,
                    viewVars >>

Next ==
    Load \/ Flush \/ RenderingUpdate \/ Notify \/ NotifyStale \/ Scroll \/ Teardown

Spec == Init /\ [][Next]_vars

---------------------------------------------------------------------------
(* The tally functions on bounded record sets                              *)
(*                                                                         *)
(* aggregateYear and aggregateYearRange are pure in the records and the    *)
(* year; they are applied here to arguments of their own, apart from the   *)
(* tracker that calls them with its current year.                          *)

TrackerIdle ==
    /\ movies = <<>>
    /\ loaded = FALSE
    /\ mounted = TRUE
    /\ steps = <<>>
    /\ currentYear = 0
    /\ dirty = FALSE
    /\ currentData = <<>>
    /\ prevData = <<>>
    /\ scrollY = 0
    /\ intersecting = FALSE
    /\ observer = NoObserver
    /\ listener = FALSE
    /\ keepsQueued = FALSE
    /\ stale = EmptyBag
    /\ dangling = 0
    /\ ahead = 0
    /\ calls = <<>>

notAgg == << trackVars, barVars, heatVars, lineVars, sceneVars >>

AggInit == TrackerIdle /\ ViewIdle

\* the two functions are called on a record set with one more record
AggAdd ==
    /\ Len(aggMovies) < MaxRecords
    /\ \E r \in Records :
          /\ aggMovies' = Append(aggMovies, r)
          /\ yearTally' = aggregateYear(aggMovies', aggYear)
          /\ rangeTally' = aggregateYearRange(aggMovies', aggYear)
    /\ UNCHANGED << aggYear, notAgg >>

\* the two functions are called with another year
AggSelect ==
    /\ \E t \in Targets :
          /\ t # aggYear
          /\ aggYear' = t
          /\ yearTally' = aggregateYear(aggMovies, t)
          /\ rangeTally' = aggregateYearRange(aggMovies, t)
    /\ UNCHANGED << aggMovies, notAgg >>

AggNext == AggAdd \/ AggSelect

AggSpec == AggInit /\ [][AggNext]_vars

---------------------------------------------------------------------------
(* The ranked bar chart under data changes and animation frames            *)

BarInit == TrackerIdle /\ ViewIdle

\* the data prop changes (the first time: the component is mounted) and the
\* effect calls draw(ranked)
BarDraw ==
    /\ draws < MaxDraws
    /\ \E d \in BarDatasets :
          /\ barData' = d
          /\ bars' = draw(bars, ranked(d), draws + 1)
    /\ draws' = draws + 1
    /\ UNCHANGED notBar

\* an animation frame while some transition is scheduled
BarTick ==
    /\ \E c \in Categories : bars[c].sched # <<>>
    /\ \E dt \in Frames : bars' = [c \in Categories |-> Frame(bars[c], dt)]
    /\ UNCHANGED << barData, draws, notBar >>

BarNext == BarDraw \/ BarTick

BarSpec == BarInit /\ [][BarNext]_vars

\* d3-timer requests an animation frame as long as a timer is active
BarFairSpec == BarSpec /\ WF_vars(BarTick)

---------------------------------------------------------------------------
(* The genre heatmap under changes of its record set                       *)

HeatInit == TrackerIdle /\ ViewIdle

\* the movies prop gets one more record: the derived values are recomputed
\* and the drawing effect runs
HeatAdd ==
    /\ Len(heatMovies) < MaxHeat
    /\ \E r \in HeatRecords :
          /\ heatMovies' = Append(heatMovies, r)
          /\ heatMatrix' = coMatrix(heatMovies')
          /\ heatSvg' = Render(heatSvg, heatMovies')
    /\ UNCHANGED notHeat

\* the movies prop becomes the empty array
HeatClear ==
    /\ heatMovies # <<>>
    /\ heatMovies' = <<>>
    /\ heatMatrix' = coMatrix(<<>>)
    /\ heatSvg' = Render(heatSvg, <<>>)
    /\ UNCHANGED notHeat

HeatNext == HeatAdd \/ HeatClear

HeatSpec == HeatInit /\ [][HeatNext]_vars

---------------------------------------------------------------------------
(* The ranked line chart under changes of its record set                   *)

LineInit == TrackerIdle /\ ViewIdle

\* the movies prop gets one more record and processedData is recomputed
LineAdd ==
    /\ Len(lineMovies) < MaxLine
    /\ \E r \in LineRecords :
          \E order \in YearOrders(Append(lineMovies, r)) :
              /\ lineMovies' = Append(lineMovies, r)
              /\ lineData' = processedData(lineMovies', order)
              /\ lineSvg' = RenderLine(lineSvg, lineMovies', lineData')
    /\ UNCHANGED notLine

LineNext == LineAdd

LineSpec == LineInit /\ [][LineNext]_vars

---------------------------------------------------------------------------
(* The 3D scene: data load, bar creation, drag and key inputs              *)

SceneInit == TrackerIdle /\ ViewIdle

\* onMount: the data is awaited, then init registers the input handlers
SceneMount ==
    /\ sceneStatus = "loading"
    /\ \E resp \in Responses : \E rows \in SeqsOf(GenreCells, MaxRows) :
          LET r == loadSummerMoviesData(resp, rows)
          IN  /\ response' = resp
              /\ csv' = rows
              /\ movieData' = IF r.resolved THEN r.value ELSE movieData
              /\ sceneStatus' = IF r.resolved THEN "ready" ELSE "failed"
    /\ UNCHANGED << barsCreated, scrollOffset, maxScroll, isDragging,
                    previousMouseX, notScene >>

\* the font is loaded: createBars(scene, font, movieData)
CreateBars ==
    /\ sceneStatus = "ready"
    /\ ~barsCreated
    /\ barsCreated' = TRUE
    /\ maxScroll' = MaxScrollOf(movieData)
    /\ UNCHANGED << response, csv, movieData, sceneStatus, scrollOffset,
                    isDragging, previousMouseX, notScene >>

MouseDown ==
    /\ sceneStatus = "ready"
    /\ \E x \in MouseXs :
          /\ isDragging' = TRUE
          /\ previousMouseX' = x
          /\ ~(isDragging /\ previousMouseX = x)
    /\ UNCHANGED << response, csv, movieData, sceneStatus, barsCreated,
                    scrollOffset, maxScroll, notScene >>

MouseMove ==
    /\ sceneStatus = "ready"
    /\ isDragging
    /\ \E x \in MouseXs :
          /\ scrollOffset' = DragTo(scrollOffset, maxScroll, x - previousMouseX)
          /\ previousMouseX' = x
    /\ UNCHANGED << response, csv, movieData, sceneStatus, barsCreated,
                    maxScroll, isDragging, notScene >>

MouseUp ==
    /\ sceneStatus = "ready"
    /\ isDragging
    /\ isDragging' = FALSE
    /\ UNCHANGED << response, csv, movieData, sceneStatus, barsCreated,
                    scrollOffset, maxScroll, previousMouseX, notScene >>

MouseLeave ==
    /\ sceneStatus = "ready"
    /\ isDragging
    /\ isDragging' = FALSE
    /\ UNCHANGED << response, csv, movieData, sceneStatus, barsCreated,
                    scrollOffset, maxScroll, previousMouseX, notScene >>

KeyDown ==
    /\ sceneStatus = "ready"
    /\ \E key \in Keys3D :
          /\ scrollOffset' =
                CASE key = "ArrowLeft" -> ArrowLeft(scrollOffset)
                  [] key = "ArrowRight" -> ArrowRight(scrollOffset, maxScroll)
                  [] OTHER -> scrollOffset
          /\ scrollOffset' # scrollOffset
    /\ UNCHANGED << response, csv, movieData, sceneStatus, barsCreated,
                    maxScroll, isDragging, previousMouseX, notScene >>

SceneNext ==
    \/ SceneMount \/ CreateBars \/ MouseDown \/ MouseMove \/ MouseUp
    \/ MouseLeave \/ KeyDown

SceneSpec == SceneInit /\ [][SceneNext]_vars

---------------------------------------------------------------------------
(* The ranked line chart on record sets with many categories               *)

\* most categories of the record sets of LabelSpec
MaxCats == 9

\* in how many years a category is the only one of the year
SoloYears == {1, 2, 3}

RECURSIVE SoloRecords(_, _)
\* the record set in which the i-th category is alone in q[i] years of its
\* own: it ranks first in each of them
SoloRecords(q, i) ==
    IF i > Len(q) THEN <<>>
    ELSE [j \in 1..q[i] |-> [year |-> 1900 + 10 * i + j,
                             genres |-> <<TenLabels[i]>>]]
         \o SoloRecords(q, i + 1)

\* the solo-year counts of the categories, rising or falling along genres
SoloCounts ==
    { q \in SeqsOf(SoloYears, MaxCats) :
        /\ q # <<>>
        /\ \/ \A i \in 1..(Len(q) - 1) : q[i] <= q[i + 1]
           \/ \A i \in 1..(Len(q) - 1) : q[i] >= q[i + 1] }

LabelInit == TrackerIdle /\ ViewIdle

\* the movies prop is set to a record set: processedData is recomputed and
\* the drawing effect runs
LineLoad ==
    /\ lineMovies = <<>>
    /\ \E q \in SoloCounts :
          \E order \in YearOrders(SoloRecords(q, 1)) :
              /\ lineMovies' = SoloRecords(q, 1)
              /\ lineData' = processedData(lineMovies', order)
              /\ lineSvg' = RenderLine(lineSvg, lineMovies', lineData')
    /\ UNCHANGED notLine

LabelNext == LineLoad

LabelSpec == LabelInit /\ [][LabelNext]_vars

---------------------------------------------------------------------------
(* Vocabulary of the properties                                            *)

\* the records whose year is a number within [lo, hi]
RecordsIn(lo, hi) ==
    { i \in 1..Len(aggMovies) :
        /\ aggMovies[i].year # NaN
        /\ lo <= aggMovies[i].year
        /\ aggMovies[i].year <= hi }

\* the label occurrences of those records, one pair per occurrence
LabelSlots(lo, hi) ==
    UNION { {<<i, j>> : j \in DOMAIN aggMovies[i].genres} : i \in RecordsIn(lo, hi) }

SlotsOf(g, lo, hi) ==
    { p \in LabelSlots(lo, hi) : aggMovies[p[1]].genres[p[2]] = g }

AllGenres == UNION { {l[j] : j \in DOMAIN l} : l \in GenreLists }

RECURSIVE SumCounts(_)
SumCounts(tally) ==
    IF tally = <<>> THEN 0 ELSE Head(tally).count + SumCounts(Tail(tally))

EntriesOf(tally, g) == { i \in DOMAIN tally : tally[i].genre = g }

\* the step findVisibleYear is to pick: none is nearer to the middle of the
\* viewport, and every step before it in document order is farther
IsNearestFirst(c) ==
    /\ c \in DOMAIN steps
    /\ \A j \in DOMAIN steps :
          Distance2(c, scrollY, mounted) <= Distance2(j, scrollY, mounted)
    /\ \A j \in 1..(c - 1) :
          Distance2(c, scrollY, mounted) < Distance2(j, scrollY, mounted)

NaNText == <<"N", "a", "N">>

Count(s, x) == Cardinality({ i \in DOMAIN s : s[i] = x })

---------------------------------------------------------------------------
(* Properties of the tracker (Spec)                                        *)

\* C1: the current year is the unset sentinel 0 or the year of a loaded
\* record, and never the year of a step whose text does not parse
C1_CurrentYearIsLoadedYear ==
    \/ currentYear = 0
    \/ /\ currentYear # NaN
       /\ \E i \in 1..Len(movies) : movies[i].year = currentYear

\* findVisibleYear ran with the unparsable step nearest, a year is set
C1_Witness ==
    /\ calls # <<>>
    /\ \E c \in DOMAIN steps : IsNearestFirst(c) /\ steps[c] = NaNText
    /\ currentYear # 0

\* C2 as stated: after findVisibleYear ran, the current year is the year
\* shown by the step nearest the middle of the viewport, the first such step
\* in document order
C2_NearestStepBecomesCurrent ==
    (calls # <<>> /\ steps # <<>>) =>
        \E c \in DOMAIN steps : IsNearestFirst(c) /\ steps[c] = ToText(currentYear)

\* C2 amended: the same, provided the nearest step's year text parses to a
\* number; when it does not, that step does not become the current year
C2_NearestParsableStepBecomesCurrent ==
    (calls # <<>> /\ steps # <<>>) =>
        \E c \in DOMAIN steps :
            /\ IsNearestFirst(c)
            /\ IF steps[c] = NaNText THEN currentYear # NaN
               ELSE steps[c] = ToText(currentYear)

\* steps 1990, 2000, 2010: the 2000 step is nearest, once alone and once at
\* the same distance as the 2010 step behind it
C2_Witness ==
    /\ calls # <<>>
    /\ steps = << ToText(1990), ToText(2000), ToText(2010) >>
    /\ IsNearestFirst(2)
    /\ \E j \in DOMAIN steps :
          j # 2 /\ Distance2(j, scrollY, mounted) = Distance2(2, scrollY, mounted)
    /\ currentYear = 2000

\* C3 as stated: once every queued notification of the live observer has
\* been delivered, its scroll listener is registered only if the container
\* intersects the viewport
C3_ListenerOnlyWhileIntersecting ==
    (mounted /\ observer.connected /\ ~observer.fresh /\ observer.queue = <<>>)
        => (listener => intersecting)

C4_Triggers ==
    /\ Notify =>
          /\ Count(calls', "scroll") + Count(calls', "setup") = 0
          /\ Count(calls', "intersect") <= 1
          /\ Count(calls', "intersect") = 1 =>
                (listener' /\ \E i \in DOMAIN observer.queue : observer.queue[i])
          /\ (~listener /\ listener') => Count(calls', "intersect") = 1
    /\ (Scroll /\ dangling = 0) =>
          calls' = IF listener THEN <<"scroll">> ELSE <<>>
    /\ Flush => calls' = IF mounted /\ movies # <<>> THEN <<"setup">> ELSE <<>>
    /\ (Load \/ RenderingUpdate \/ Teardown) => calls' = <<>>
    /\ Count(calls', "setup") > 0 => (mounted' /\ observer' = NewObserver)
    /\ (~listener /\ ~listener' /\ stale = EmptyBag /\ dangling = 0) =>
          \A i \in DOMAIN calls' : calls'[i] = "setup"
    /\ ~keepsQueued => (stale' = EmptyBag /\ dangling' = 0)

C5_Released ==
    ~mounted => (~listener /\ dangling = 0 /\ ~observer.connected)

C6_PropsFollowCurrentYear ==
    (mounted /\ BetweenTasks) =>
        /\ currentData = aggregateYear(movies, currentYear)
        /\ prevData = aggregateYearRange(movies, currentYear)

\* a scroll changed the year, the flush ran, and the two charts show
\* different tallies
C6_Witness ==
    /\ mounted
    /\ ~dirty
    /\ calls = <<"setup">>
    /\ scrollY # 0
    /\ currentYear # 0
    /\ currentYear # years(movies)[1]
    /\ currentData # <<>>
    /\ prevData # currentData

---------------------------------------------------------------------------
(* Properties of the tally functions (AggSpec)                             *)

\* C7: the counts of the single-year tally sum to the number of labels of
\* the records of the target year
C7_SingleYearCountsSumToLabels ==
    SumCounts(yearTally) = Cardinality(LabelSlots(aggYear, aggYear))

\* two records of the target year, one label of which repeats
C7_Witness ==
    /\ Cardinality(RecordsIn(aggYear, aggYear)) = 2
    /\ Len(yearTally) = 2
    /\ SumCounts(yearTally) >= 3

\* C8: every category of the single-year tally is in the trailing-window
\* tally with a count at least as large
C8_WindowCoversSingleYear ==
    \A i \in DOMAIN yearTally :
        \E j \in DOMAIN rangeTally :
            /\ rangeTally[j].genre = yearTally[i].genre
            /\ rangeTally[j].count >= yearTally[i].count

\* a category counted in the target year and again earlier in the window
C8_Witness ==
    /\ yearTally # <<>>
    /\ \E i \in DOMAIN yearTally : \E j \in DOMAIN rangeTally :
          /\ rangeTally[j].genre = yearTally[i].genre
          /\ rangeTally[j].count > yearTally[i].count

\* C9: per category the trailing-window tally counts the label occurrences
\* of the records with target - 10 <= year <= target, and only those
C9_WindowIsClosedInterval ==
    \A g \in AllGenres :
        /\ Cardinality(EntriesOf(rangeTally, g)) <= 1
        /\ \A i \in EntriesOf(rangeTally, g) :
              rangeTally[i].count = Cardinality(SlotsOf(g, aggYear - 10, aggYear))
        /\ EntriesOf(rangeTally, g) = {} =>
              SlotsOf(g, aggYear - 10, aggYear) = {}

\* a record exactly ten years before the target is counted, one eleven
\* years before it is not
C9_Witness ==
    /\ \E i \in 1..Len(aggMovies) : aggMovies[i].year = aggYear - 10
    /\ \E i \in 1..Len(aggMovies) : aggMovies[i].year = aggYear - 11
    /\ SumCounts(rangeTally) > 0
    /\ SumCounts(rangeTally) < Len(FlatGenres(aggMovies))

\* C10: the single-year tally holds each category of the matching records
\* once, with its number of occurrences, in order of non-increasing count;
\* the records of the scenario give [(Action, 2), (Comedy, 1)]
C10_SingleYearTallyIsRanked ==
    /\ \A g \in AllGenres :
          /\ Cardinality(EntriesOf(yearTally, g))
                = (IF SlotsOf(g, aggYear, aggYear) = {} THEN 0 ELSE 1)
          /\ \A i \in EntriesOf(yearTally, g) :
                yearTally[i].count = Cardinality(SlotsOf(g, aggYear, aggYear))
    /\ \A i, j \in DOMAIN yearTally :
          i < j => yearTally[i].count >= yearTally[j].count
    /\ ( /\ aggMovies = << [year |-> 2000, genres |-> <<"Action", "Comedy">>],
                        [year |-> 2000, genres |-> <<"Action">>] >>
         /\ aggYear = 2000 )
       => yearTally = << [genre |-> "Action", count |-> 2],
                           [genre |-> "Comedy", count |-> 1] >>

\* the scenario's records and target, tallied
C10_Witness ==
    /\ aggMovies = << [year |-> 2000, genres |-> <<"Action", "Comedy">>],
                   [year |-> 2000, genres |-> <<"Action">>] >>
    /\ aggYear = 2000
    /\ yearTally = << [genre |-> "Action", count |-> 2],
                        [genre |-> "Comedy", count |-> 1] >>

\* C11: both tallies are the empty sequence when there is no record, when
\* the target year is the unset sentinel, and when no record matches the
\* target year (for the window: no record lies in the window)
C11_NothingToTallyGivesEmpty ==
    /\ (Len(aggMovies) = 0 \/ aggYear = 0
            \/ RecordsIn(aggYear, aggYear) = {})
          => yearTally = <<>>
    /\ (Len(aggMovies) = 0 \/ aggYear = 0
            \/ RecordsIn(aggYear - 10, aggYear) = {})
          => rangeTally = <<>>

\* records are loaded, the target is a year, and every record is later than
\* the target: both tallies are empty
C11_Witness ==
    /\ Len(aggMovies) = MaxRecords
    /\ aggYear \in Years
    /\ \A i \in 1..Len(aggMovies) :
          aggMovies[i].year # NaN /\ aggMovies[i].year > aggYear
    /\ yearTally = <<>>
    /\ rangeTally = <<>>

---------------------------------------------------------------------------
(* The ranked bar chart: C12, C13                                          *)

\* the newest schedule of a node
Newest(node) == node.sched[Len(node.sched)]

\* a draw step classified every category against the nodes in the document
DrawClassifies ==
    draws' = draws + 1 =>
        \A c \in Categories :
            /\ (~bars[c].present /\ c \in Keys(barData')) =>
                   /\ bars'[c].present /\ bars'[c].opacity = 0
                   /\ Len(bars'[c].sched) = 1
                   /\ Newest(bars'[c]).kind = "enter"
                   /\ Newest(bars'[c]).id = draws'
            /\ (bars[c].present /\ c \in Keys(barData')) =>
                   /\ Len(bars'[c].sched) = Len(bars[c].sched) + 1
                   /\ Newest(bars'[c]).kind = "update"
                   /\ Newest(bars'[c]).id = draws'
            /\ (bars[c].present /\ c \notin Keys(barData')) =>
                   /\ Len(bars'[c].sched) = Len(bars[c].sched) + 1
                   /\ Newest(bars'[c]).kind = "exit"
                   /\ Newest(bars'[c]).id = draws'
            /\ (~bars[c].present /\ c \notin Keys(barData')) =>
                   bars'[c] = NoBar

\* the first frame after a draw started every update transition
FrameStartsUpdates ==
    draws' = draws =>
        \A c \in Categories : \A i \in 1..Len(bars'[c].sched) :
            bars'[c].sched[i].kind = "update" => bars'[c].sched[i].running

\* a started enter transition is at least an update duration old
EnterAfterUpdate ==
    \A c \in Categories : \A i \in 1..Len(bars[c].sched) :
        (bars[c].sched[i].kind = "enter" /\ bars[c].sched[i].running) =>
            bars[c].sched[i].age >= Duration("update")

\* the node carries a transition of an earlier draw than draw id that has
\* not started yet
OlderPending(node, id) ==
    \E k \in 1..Len(node.sched) : node.sched[k].id < id /\ ~node.sched[k].running

\* the node carries the update transition of draw id
Updating(node, id) ==
    \E j \in 1..Len(node.sched) :
        node.sched[j].kind = "update" /\ node.sched[j].id = id

\* in the frame in which an enter transition starts, the update transitions
\* of its draw are over: none is left on any bar; with late excepted, this
\* is not required of an update on a node on which an earlier draw's
\* transition had not started before this frame
UpdatesOverAtEnterStart(lateExcepted) ==
    \A c \in Categories : \A i \in 1..Len(bars'[c].sched) :
        (/\ bars'[c].sched[i].kind = "enter"
         /\ bars'[c].sched[i].running
         /\ HasSchedule(bars[c], bars'[c].sched[i].id)
         /\ ~ScheduleOf(bars[c], bars'[c].sched[i].id).running) =>
            \A d \in Categories :
                (/\ Updating(bars[d], bars'[c].sched[i].id)
                 /\ ~(lateExcepted /\ OlderPending(bars[d], bars'[c].sched[i].id))) =>
                    ~Updating(bars'[d], bars'[c].sched[i].id)

BarSettled ==
    \A c \in Categories :
        IF c \in Keys(barData)
        THEN bars[c].present /\ bars[c].opacity = 100 /\ bars[c].sched = <<>>
        ELSE bars[c] = NoBar

\* C13: whatever the data changes and whenever they arrive, once they stop
\* the chart settles for good with exactly one fully visible bar per
\* category of the latest data and no bar of any other category
C13_EventuallySettled == <>[]BarSettled

\* a category reappeared while its bar was fading out: the node carries the
\* running exit transition and the update transition of the later draw
C13_Witness ==
    \E c \in Categories :
        /\ c \in Keys(barData)
        /\ Len(bars[c].sched) = 2
        /\ bars[c].sched[1].kind = "exit" /\ bars[c].sched[1].running
        /\ bars[c].sched[2].kind = "update" /\ ~bars[c].sched[2].running

---------------------------------------------------------------------------
(* The genre heatmap: C14, C15, C16                                        *)

\* C14: the co-occurrence matrix is symmetric: matrix[g][h] = matrix[h][g]
\* for every pair of categories present in the records
C14_MatrixIsSymmetric ==
    \A g \in LabelSet(heatMovies) : \A h \in LabelSet(heatMovies) :
        heatMatrix[g][h] = heatMatrix[h][g]

C14_Witness ==
    /\ Len(heatMovies) = MaxHeat
    /\ LabelSet(heatMovies) = {"Action", "Comedy", "Drama"}
    /\ heatMatrix["Action"]["Comedy"] > 0
    /\ heatMatrix["Comedy"]["Action"] = heatMatrix["Action"]["Comedy"]
    /\ heatMatrix["Comedy"]["Drama"] > 0

\* the records whose label list contains both g and h
RecordsWithBoth(ms, g, h) ==
    {i \in 1..Len(ms) : Contains(ms[i].genres, g) /\ Contains(ms[i].genres, h)}

\* C15: each diagonal entry is the number of occurrences of the category
\* across all records and each off-diagonal entry is the number of records
\* that contain both categories, repeated labels included
C15_EntriesCountOccurrences ==
    \A g \in LabelSet(heatMovies) : \A h \in LabelSet(heatMovies) :
        heatMatrix[g][h] =
            IF g = h THEN Occurrences(FlatGenres(heatMovies), g)
            ELSE Cardinality(RecordsWithBoth(heatMovies, g, h))

\* C16: whenever the record set has no category the svg holds nothing: no
\* cell, no label, no legend
C16_NoCategoryShowsNothing ==
    LabelSet(heatMovies) = {} => heatSvg = EmptySvg

---------------------------------------------------------------------------
(* The ranked line chart: C17, C18                                         *)

\* the years of the records of the line chart
LineYearSet == {lineMovies[i].year : i \in 1..Len(lineMovies)}

\* C17: every category's trajectory has one point per year present in the
\* data, in increasing year order, and its cumulative score never decreases
\* from one point to the next
C17_TrajectoryIsChronological ==
    \A g \in 1..Len(lineData.genreTrajectories) :
        LET t == lineData.genreTrajectories[g]
        IN  /\ Len(t) = Cardinality(LineYearSet)
            /\ {t[k].year : k \in 1..Len(t)} = LineYearSet
            /\ \A k \in 1..(Len(t) - 1) :
                  /\ t[k].year < t[k + 1].year
                  /\ t[k].year # NaN /\ t[k + 1].year # NaN
                  /\ t[k].cumulative <= t[k + 1].cumulative

\* the labels of the records of year y, flattened in record order
LabelsOfYear(y) ==
    LET inYear(m) == m.year = y
    IN  FlatGenres(SelectSeq(lineMovies, inYear))

FirstPos(labels, g) ==
    CHOOSE i \in 1..Len(labels) :
        labels[i] = g /\ \A j \in 1..(i - 1) : labels[j] # g

\* the rank of a category in a year: one more than the categories with a
\* larger count, or the same count and an earlier first occurrence
RankOf(labels, g) ==
    1 + Cardinality({ h \in {labels[i] : i \in 1..Len(labels)} :
            \/ Occurrences(labels, h) > Occurrences(labels, g)
            \/ /\ Occurrences(labels, h) = Occurrences(labels, g)
               /\ FirstPos(labels, h) < FirstPos(labels, g) })

\* 3, 2, 1 for the ranks 1, 2, 3 and 0 otherwise
Award(y, g) ==
    LET labels == LabelsOfYear(y)
    IN  IF Contains(labels, g) /\ RankOf(labels, g) <= 3
        THEN 4 - RankOf(labels, g) ELSE 0

RECURSIVE SumAwards(_, _)
SumAwards(ys, g) ==
    IF ys = <<>> THEN 0 ELSE Award(Head(ys), g) + SumAwards(Tail(ys), g)

RECURSIVE SumOver(_, _)
\* the awards of year y summed over a set of categories
SumOver(S, y) ==
    IF S = {} THEN 0
    ELSE LET g == CHOOSE x \in S : TRUE
         IN  Award(y, g) + SumOver(S \ {g}, y)

LineLabelSet == {FlatGenres(lineMovies)[i] : i \in 1..Len(FlatGenres(lineMovies))}

\* C18: in every year a category's cumulative score grows by 3, 2, 1 for
\* the ranks 1, 2, 3 by occurrence count in that year and by 0 otherwise; at
\* most three categories gain in a year, a year awards at most 6 in total,
\* and a category's final score is the sum of its awards
C18_AwardsFollowYearlyRank ==
    LET gs == lineGenres(lineMovies)
        ys == lineData.years
    IN  /\ Len(lineData.genreTrajectories) = Len(gs)
        /\ \A g \in 1..Len(gs) :
              LET t == lineData.genreTrajectories[g]
              IN  /\ Len(t) = Len(ys)
                  /\ \A k \in 1..Len(t) :
                        t[k].cumulative
                            - (IF k = 1 THEN 0 ELSE t[k - 1].cumulative)
                          = Award(ys[k], gs[g])
                  /\ Len(t) > 0 => t[Len(t)].cumulative = SumAwards(ys, gs[g])
        /\ \A k \in 1..Len(ys) :
              /\ Cardinality({c \in LineLabelSet : Award(ys[k], c) > 0}) <= 3
              /\ SumOver(LineLabelSet, ys[k]) <= 6

\* two years, one of them with four categories: the fourth gains nothing
\* there, and a category has gained in both years
C18_Witness ==
    /\ Len(lineData.years) = 2
    /\ \E k \in 1..2 :
          /\ Cardinality({c \in LineLabelSet : Award(lineData.years[k], c) > 0}) = 3
          /\ \E c \in LineLabelSet :
                /\ Contains(LabelsOfYear(lineData.years[k]), c)
                /\ Award(lineData.years[k], c) = 0
    /\ \E g \in 1..Len(lineData.genreTrajectories) :
          /\ lineData.genreTrajectories[g][1].cumulative > 0
          /\ lineData.genreTrajectories[g][2].cumulative
                > lineData.genreTrajectories[g][1].cumulative

---------------------------------------------------------------------------
(* The 3D scene: C19, C20                                                  *)

\* C19: whatever the drag and arrow-key inputs, the number of categories
\* and whether the bars exist yet, the pan offset is never negative and
\* never exceeds the maximum pan value
C19_OffsetWithinExtent ==
    scrollOffset >= 0 /\ scrollOffset <= maxScroll

\* C20: loadSummerMoviesData never fails; when the fetch fails, the status
\* is not OK or the file yields no category the fallback distribution is
\* returned, so the mapping handed to the scene is never empty
C20_LoadNeverFails ==
    /\ sceneStatus # "failed"
    /\ sceneStatus = "ready" =>
          /\ DOMAIN movieData # {}
          /\ (response # "ok" \/ \A i \in 1..Len(csv) :
                                     \A k \in 1..Len(csv[i]) :
                                         csv[i][k] \in {"", " "})
                => movieData = Fallback

\* the file was fetched and has rows, none of them names a category, and
\* the scene got the fallback distribution
C20_Witness ==
    /\ sceneStatus = "ready"
    /\ response = "ok"
    /\ Len(csv) = MaxRows
    /\ csv[1] # Missing
    /\ GenreTokens(csv) = <<>>
    /\ movieData = Fallback
    /\ barsCreated

---------------------------------------------------------------------------
(* The ranked line chart: C21, C22                                         *)

\* the final cumulative score of each category, by position in genres
FinalScores ==
    [g \in 1..Len(lineData.genreTrajectories) |->
        lineData.genreTrajectories[g][Len(lineData.genreTrajectories[g])]
            .cumulative]

\* the 8th-highest final score: at most 7 categories score more and at
\* least 8 score as much; 0 when there are fewer than 8 categories
EighthHighest ==
    LET fs == FinalScores
        atLeast(v) == Cardinality({g \in DOMAIN fs : fs[g] >= v})
        above(v) == Cardinality({g \in DOMAIN fs : fs[g] > v})
        eighth == {fs[g] : g \in DOMAIN fs} \cap
                  {v \in 0..100 : atLeast(v) >= 8 /\ above(v) <= 7}
    IN  IF eighth = {} THEN 0 ELSE CHOOSE v \in eighth : TRUE

Labeled(genre) ==
    \E i \in 1..Len(lineSvg.labels) : lineSvg.labels[i].genre = genre

\* C21: a trajectory is labeled exactly when its final cumulative score is
\* at least the greater of 5 and the 8th-highest final score; no category
\* with a final score below 5 is labeled, however many categories there are
C21_LabeledIffAtLeastThreshold ==
    LET gs == lineGenres(lineMovies)
    IN  /\ \A g \in DOMAIN FinalScores :
              Labeled(gs[g]) <=> FinalScores[g] >= Max(5, EighthHighest)
        /\ \A i \in 1..Len(lineSvg.labels) :
              /\ lineSvg.labels[i].cumulative >= 5
              /\ \E g \in DOMAIN FinalScores :
                    /\ gs[g] = lineSvg.labels[i].genre
                    /\ FinalScores[g] = lineSvg.labels[i].cumulative

\* more than 8 categories, the 8th-highest score above 5: a category with a
\* score of 6 is not labeled, the ones at the threshold are
C21_Witness ==
    /\ Len(lineData.genreTrajectories) = MaxCats
    /\ EighthHighest = 9
    /\ \E g \in DOMAIN FinalScores :
          FinalScores[g] = 6 /\ ~Labeled(lineGenres(lineMovies)[g])
    /\ Len(lineSvg.labels) = 8

ConnectorOf(genre) ==
    {i \in 1..Len(lineSvg.connectors) : lineSvg.connectors[i].genre = genre}

\* C22 as stated: a labeled trajectory has a connector when its label's
\* adjusted position differs from the endpoint's position, and none when
\* the label sits at the endpoint's position
C22_ConnectorOnlyWhenApart ==
    \A i \in 1..Len(lineSvg.labels) :
        ConnectorOf(lineSvg.labels[i].genre) # {}
            <=> lineSvg.labels[i].labelY # lineSvg.labels[i].lineY

\* C22: every labeled trajectory has exactly one connector, from the
\* endpoint's position to the label's adjusted position, also when the two
\* positions are the same
C22_ConnectorForEveryLabel ==
    /\ Len(lineSvg.connectors) = Len(lineSvg.labels)
    /\ \A i \in 1..Len(lineSvg.labels) :
          /\ Cardinality(ConnectorOf(lineSvg.labels[i].genre)) = 1
          /\ \A c \in ConnectorOf(lineSvg.labels[i].genre) :
                /\ lineSvg.connectors[c].y1 = lineSvg.labels[i].lineY
                /\ lineSvg.connectors[c].y2 = lineSvg.labels[i].labelY

\* one label sits at its endpoint, another was moved down by the spacing,
\* and both have their connector
C22_Witness ==
    /\ \E i \in 1..Len(lineSvg.labels) :
          /\ lineSvg.labels[i].labelY = lineSvg.labels[i].lineY
          /\ ConnectorOf(lineSvg.labels[i].genre) # {}
    /\ \E i \in 1..Len(lineSvg.labels) :
          /\ lineSvg.labels[i].labelY > lineSvg.labels[i].lineY
          /\ ConnectorOf(lineSvg.labels[i].genre) # {}

---------------------------------------------------------------------------
(* The tracker across runs of its setup effect: C23                        *)

====
